---- MODULE Spec2Model ----
(***************************************************************************)
(* Determinism harness of src/main.rs: scene builder (setup_scene), reset  *)
(* controller (clear_scene), collision-pair filter                         *)
(* (ignore_joint_collisions) and state hasher (update_hash, djb2_hash),    *)
(* run by the schedules that main() registers them in.                     *)
(*                                                                         *)
(* Scalars.  Every pose component is an f32 in the program.  The model     *)
(* keeps a scalar as an integer number of tenths (0.5 is 5, -7.5 is -75),  *)
(* which represents every coordinate setup_scene computes, and takes the   *)
(* four bytes of a scalar to be the little-endian two's-complement bytes   *)
(* of that integer: like the IEEE bit pattern, an injective 4-byte code.   *)
(*                                                                         *)
(* Width.  The hash accumulator is a u32.  It is kept as <<hi, lo>>, two   *)
(* 16-bit halves, so that wrapping arithmetic mod 2^32 is exact.           *)
(***************************************************************************)
EXTENDS Integers, Sequences, FiniteSets, TLC

(***************************************************************************)
(* Program constants.  STEP_COUNT is 500 and COLUMNS is 4 in main.rs; the  *)
(* model runs a shorter horizon and fewer columns, and every formula is    *)
(* stated in terms of the names.  ROWS and the geometry keep their values, *)
(* so the layout has the coincidences of the real one (row 25 of a column  *)
(* has the x of row 0 of the next column: 25 * 0.2 = 5.0 = delta_x).       *)
(***************************************************************************)
STEP_COUNT == 3

ROWS == 30

COLUMNS == 2

\* let half_size = 0.5, in tenths
half_size == 5

\* let offset = 0.4 * half_size
offset == (4 * half_size) \div 10

\* let delta_x = 10.0 * half_size
delta_x == 10 * half_size

\* let x_root = -0.5 * delta_x * (COLUMNS as f32 - 1.0)
x_root == -((delta_x * (COLUMNS - 1)) \div 2)

(***************************************************************************)
(* Bounds of the exploration.                                              *)
(***************************************************************************)
\* resets (presses of R) in one behaviour
MaxResets == 1

\* fixed ticks explored after the counter has passed STEP_COUNT
MaxIdleTicks == 2

\* bodies a query result of HashSpec holds
MaxPoses == 3

\* bodies and joints of the worlds FilterSpec starts from
MaxFilterBodies == 3

MaxJoints == 2

VARIABLES
    world,        \* the entities, in creation (= query iteration) order
    nextId,       \* next fresh entity identity
    commands,     \* deferred command queue of the running schedule
    step,         \* resource Step
    step_text,    \* TextSpan of the StepText entity
    hash_text,    \* TextSpan of the HashText entity
    collisions,   \* resource Collisions: set of unordered body pairs
    pc,           \* position in the frame's schedules
    order,        \* column order drawn by the last setup_scene
    resets,       \* how many resets have been triggered
    physSteps,    \* physics steps run on the present scene
    hashed,       \* did the last run of update_hash compute a hash
    hashInput,    \* poses folded by the last hash computation, in fold order
    lastHash,     \* accumulator the last hash computation ended with
    hashCount,    \* hash computations since the present scene was built
    narrow,       \* the pairs contact generation reported in the present step
    ran,          \* the system the last step ran
    resetAt,      \* the counter value the last reset found, -1 before any reset
    djb2In,       \* <<hash, data>>: the arguments of the last call of djb2_hash
    djb2Out       \* the value the last call of djb2_hash returned

vars == <<world, nextId, commands, step, step_text, hash_text, collisions, pc,
          order, resets, physSteps, hashed, hashInput, lastHash, hashCount,
          narrow, ran, resetAt, djb2In, djb2Out>>

\* the record of the last call of djb2_hash
djb2Call == <<djb2In, djb2Out>>

(***************************************************************************)
(* Generic helpers.                                                        *)
(***************************************************************************)
Range(s) == {s[i] : i \in 1..Len(s)}

Perms(n) == {p \in [1..n -> 0..(n - 1)] : \A i, j \in 1..n : p[i] = p[j] => i = j}

(***************************************************************************)
(* Text: usize::to_string and format!("{:x}").                             *)
(***************************************************************************)
Digit(n) == <<"0", "1", "2", "3", "4", "5", "6", "7", "8", "9",
              "a", "b", "c", "d", "e", "f">>[n + 1]

RECURSIVE to_string(_)
to_string(n) ==
    IF n < 10 THEN <<Digit(n)>> ELSE to_string(n \div 10) \o <<Digit(n % 10)>>

RECURSIVE Hex16(_)
Hex16(n) ==
    IF n < 16 THEN <<Digit(n)>> ELSE Hex16(n \div 16) \o <<Digit(n % 16)>>

Hex16Padded(n) ==
    <<Digit(n \div 4096), Digit((n \div 256) % 16), Digit((n \div 16) % 16), Digit(n % 16)>>

\* {:x} of the u32 <<hi, lo>>: no leading zeros
LowerHex(h) == IF h[1] = 0 THEN Hex16(h[2]) ELSE Hex16(h[1]) \o Hex16Padded(h[2])

(***************************************************************************)
(* djb2_hash and the byte record of an Isometry.                           *)
(***************************************************************************)
\* mutant of Djb2Byte: the additions saturate at u32::MAX instead of wrapping
Djb2Byte_saturating(h, byte) ==
    LET low == h[2] * 32 + h[2] + byte
        high == h[1] * 32 + h[1] + (low \div 65536)
    IN  IF high >= 65536 THEN <<65535, 65535>> ELSE <<high, low % 65536>>

\* hash = (hash << 5).wrapping_add(hash).wrapping_add(byte as u32)
Djb2Byte(h, byte) ==
    LET low == h[2] * 32 + h[2] + byte
        high == h[1] * 32 + h[1] + (low \div 65536)
    IN  <<high % 65536, low % 65536>>

\* the loop of djb2_hash over data[lo..hi].  The left fold over a range is the
\* fold over its second half, started from the fold over its first half; halving
\* keeps the evaluation shallow.  The accumulator h of the first half is bound
\* as a value (TLC passes operator arguments unevaluated), as in the program.
RECURSIVE Djb2Range(_, _, _, _)
Djb2Range(hash, data, lo, hi) ==
    IF lo > hi THEN hash
    ELSE IF lo = hi THEN Djb2Byte(hash, data[lo])
    ELSE LET mid == (lo + hi) \div 2
         IN  CHOOSE r \in {Djb2Range(h, data, mid + 1, hi) :
                            h \in {Djb2Range(hash, data, lo, mid)}} : TRUE

\* for &byte in data { hash = ... } hash
djb2_hash(hash, data) == Djb2Range(hash, data, 1, Len(data))

\* the four bytes of one 32-bit scalar, least significant first
ScalarBytes(v) ==
    IF v >= 0
    THEN <<v % 256, (v \div 256) % 256, (v \div 65536) % 256, (v \div 16777216) % 256>>
    ELSE LET w == (-v) - 1
         IN  <<255 - (w % 256), 255 - ((w \div 256) % 256),
               255 - ((w \div 65536) % 256), 255 - ((w \div 16777216) % 256)>>

\* bytemuck::bytes_of(&Isometry { translation, rotation }): 28 bytes, no padding
bytes_of(pose) ==
    ScalarBytes(pose.pos[1]) \o ScalarBytes(pose.pos[2]) \o ScalarBytes(pose.pos[3])
    \o ScalarBytes(pose.rot[1]) \o ScalarBytes(pose.rot[2])
    \o ScalarBytes(pose.rot[3]) \o ScalarBytes(pose.rot[4])

(***************************************************************************)
(* Entities.  An entity is a record: its identity, the components the      *)
(* systems' queries test for, the kind of rigid body, its pose (Position,  *)
(* Rotation; for an entity without a rigid body, its Transform) and, for a *)
(* RevoluteJoint, the two bodies it connects.  col and row record the      *)
(* loop indices the body was created under; no system reads them.          *)
(***************************************************************************)
Entity(id, comps, rb, col, row, pos) ==
    [id |-> id, comps |-> comps, rb |-> rb, col |-> col, row |-> row,
     pos |-> pos, rot |-> <<0, 0, 0, 10>>, e1 |-> 0, e2 |-> 0]

JointEntity(id, a, b) ==
    [id |-> id, comps |-> {"RevoluteJoint"}, rb |-> "none", col |-> -1, row |-> -1,
     pos |-> <<0, 0, 0>>, rot |-> <<0, 0, 0, 10>>, e1 |-> a, e2 |-> b]

DirectionalLightEntity(id) == Entity(id, {"DirectionalLight"}, "none", -1, -1, <<0, 0, 0>>)

CameraEntity(id) == Entity(id, {"Camera"}, "none", -1, -1, <<0, 120, 400>>)

\* Transform::from_xyz(0.0, -2.0, 0.0), RigidBody::Static, Collider::cuboid
GroundEntity(id) == Entity(id, {"RigidBody", "Collider"}, "Static", -1, -1, <<0, -20, 0>>)

\* the body spawned for (col, row): x = x_root + col * delta_x + offset * row
SquareTranslation(col, row) ==
    <<(x_root + col * delta_x) + offset * row, half_size + 2 * half_size * row, 0>>

SquareEntity(id, col, row) ==
    Entity(id, {"RigidBody", "Collider"}, "Dynamic", col, row, SquareTranslation(col, row))

\* mutant of SquareSpawns: x is computed from the place of the column in the
\* shuffled list, not from the column index
SquareSpawns_byShufflePlace(cols, firstId) ==
    [k \in 1..(Len(cols) * ROWS) |->
        LET place == (k - 1) \div ROWS
            c == cols[place + 1]
            r == (k - 1) % ROWS
        IN  [op |-> "spawn",
             ent |-> Entity(firstId + (k - 1), {"RigidBody", "Collider"}, "Dynamic", c, r,
                            SquareTranslation(place, r))]]

\* for col in cols { for row in 0..ROWS { commands.spawn(...) } }
SquareSpawns(cols, firstId) ==
    [k \in 1..(Len(cols) * ROWS) |->
        LET c == cols[((k - 1) \div ROWS) + 1]
            r == (k - 1) % ROWS
        IN  [op |-> "spawn", ent |-> SquareEntity(firstId + (k - 1), c, r)]]

\* the commands one run of setup_scene queues, in order
setup_scene(cols, firstId) ==
    << [op |-> "spawn", ent |-> DirectionalLightEntity(firstId)],
       [op |-> "spawn", ent |-> CameraEntity(firstId + 1)],
       [op |-> "spawn", ent |-> GroundEntity(firstId + 2)] >>
    \o SquareSpawns(cols, firstId + 3)

\* mutant of ClearQuery: the bodies' filters are left out
ClearQuery_cameraOnly(e) == "Camera" \in e.comps

\* clear_scene's query: Or<(With<RigidBody>, With<Collider>, With<RevoluteJoint>, With<Camera>)>
ClearQuery(e) == e.comps \cap {"RigidBody", "Collider", "RevoluteJoint", "Camera"} # {}

\* for entity in &query { commands.entity(entity).despawn_recursive() }
clear_scene(w) ==
    LET hit == SelectSeq(w, ClearQuery)
    IN  [k \in 1..Len(hit) |-> [op |-> "despawn", ent |-> hit[k]]]

\* mutant of ApplyCommands: the despawn commands are dropped
ApplyCommands_spawnsOnly(w, cmds) ==
    LET born == SelectSeq(cmds, LAMBDA c : c.op = "spawn")
    IN  w \o [k \in 1..Len(born) |-> born[k].ent]

\* the world after the queued commands have been applied, in queue order
ApplyCommands(w, cmds) ==
    LET gone == {cmds[k].ent.id : k \in {j \in 1..Len(cmds) : cmds[j].op = "despawn"}}
        born == SelectSeq(cmds, LAMBDA c : c.op = "spawn")
    IN  SelectSeq(w, LAMBDA e : e.id \notin gone)
        \o [k \in 1..Len(born) |-> born[k].ent]

(***************************************************************************)
(* update_hash.                                                            *)
(***************************************************************************)
\* mutant of HashQuery: only dynamic bodies match
HashQuery_dynamicOnly(e) == e.rb = "Dynamic"

\* Query<(&Position, &Rotation), With<RigidBody>>
HashQuery(e) == "RigidBody" \in e.comps

\* transforms.iter().collect(): the matching entities' poses, in iteration order
Transforms(w) ==
    LET hit == SelectSeq(w, HashQuery)
    IN  [k \in 1..Len(hit) |-> [pos |-> hit[k].pos, rot |-> hit[k].rot]]

\* f32::NAN, as the scalar whose four bytes are the quiet NaN 0x7fc00000
NaN == 2143289344

\* mutant of partial_cmp: a total order that puts NaN above every number
partial_cmp_total(a, b) == IF a < b THEN "Less" ELSE IF a = b THEN "Equal" ELSE "Greater"

\* a.0.x.partial_cmp(&b.0.x): None when either side is NaN
partial_cmp(a, b) ==
    IF a = NaN \/ b = NaN THEN "None"
    ELSE IF a < b THEN "Less" ELSE IF a = b THEN "Equal" ELSE "Greater"

\* .expect("Comparison failed") panics in the sort: a sort of two or more
\* elements compares every element with another one at least once
expect_fails(ts) ==
    \E i, j \in 1..Len(ts) : i # j /\ partial_cmp(ts[i].pos[1], ts[j].pos[1]) = "None"

\* transforms_vec.sort_by(...): a stable sort by ascending x.  Around a pivot:
\* the elements that compare Less, sorted; then those that compare Equal, in
\* their order in ts; then those that compare Greater, sorted.
RECURSIVE sort_by(_)
sort_by(ts) ==
    IF Len(ts) <= 1 THEN ts
    ELSE LET pivot == ts[(Len(ts) + 1) \div 2].pos[1]
             Side(c) == SelectSeq(ts, LAMBDA t : partial_cmp(t.pos[1], pivot) = c)
         IN  sort_by(Side("Less")) \o Side("Equal") \o sort_by(Side("Greater"))

\* for (position, rotation) in transforms_vec { hash = djb2_hash(hash, bytes_of(..)) }
\* over ts[lo..hi], halved like Djb2Range
RECURSIVE FoldPoses(_, _, _, _)
FoldPoses(hash, ts, lo, hi) ==
    IF lo > hi THEN hash
    ELSE IF lo = hi THEN djb2_hash(hash, bytes_of(ts[lo]))
    ELSE LET mid == (lo + hi) \div 2
         IN  CHOOSE r \in {FoldPoses(h, ts, mid + 1, hi) :
                            h \in {FoldPoses(hash, ts, lo, mid)}} : TRUE

\* let mut hash = 5381; ... the accumulator after the loop
HashOf(ts) == FoldPoses(<<0, 5381>>, ts, 1, Len(ts))

\* mutant of HashText: the annotation is written one tick early as well
HashText_early(hash, n) ==
    IF n >= STEP_COUNT - 1
    THEN <<"0", "x">> \o LowerHex(hash) \o <<" ", "(", "s", "t", "e", "p", " ">>
         \o to_string(n) \o <<")">>
    ELSE <<"0", "x">> \o LowerHex(hash)

\* the text written to the HashText span
HashText(hash, n) ==
    IF n = STEP_COUNT
    THEN <<"0", "x">> \o LowerHex(hash) \o <<" ", "(", "s", "t", "e", "p", " ">>
         \o to_string(n) \o <<")">>
    ELSE <<"0", "x">> \o LowerHex(hash)

\* mutants of PastHorizon: the return one tick late, and one tick early
PastHorizon_late(n) == n > STEP_COUNT + 1

PastHorizon_early(n) == n >= STEP_COUNT

\* if step.0 > STEP_COUNT { return; }
PastHorizon(n) == n > STEP_COUNT

(***************************************************************************)
(* The physics engine is an external collaborator.  Its step is modelled   *)
(* as a deterministic function of the poses alone: a dynamic body falls    *)
(* half_size per step until it rests on the ground slab; a static body     *)
(* does not move.  Contact generation reports the ground with every body   *)
(* resting on it.                                                          *)
(***************************************************************************)
RestHeight == (-20 + half_size) + half_size

Integrate(e) ==
    IF e.rb = "Dynamic"
    THEN [e EXCEPT !.pos[2] = IF @ - half_size >= RestHeight THEN @ - half_size ELSE @]
    ELSE e

PhysicsStep(w) == [k \in 1..Len(w) |-> Integrate(w[k])]

Contacts(w) ==
    {{w[i].id, w[j].id} : i \in {k \in 1..Len(w) : w[k].rb = "Static"},
                          j \in {k \in 1..Len(w) : w[k].rb = "Dynamic"
                                                   /\ w[k].pos[2] - half_size < RestHeight}}

(***************************************************************************)
(* ignore_joint_collisions.                                                *)
(***************************************************************************)
\* collisions.remove_collision_pair(entity1, entity2)
remove_collision_pair(coll, a, b) == coll \ {{a, b}}

\* Query<&RevoluteJoint>
JointQuery(e) == "RevoluteJoint" \in e.comps

RECURSIVE RemoveJointPairs(_, _)
RemoveJointPairs(joints, coll) ==
    IF joints = <<>> THEN coll
    ELSE RemoveJointPairs(Tail(joints),
                          remove_collision_pair(coll, joints[1].e1, joints[1].e2))

\* mutant of ignore_joint_collisions: only the first joint is handled
ignore_joint_collisions_firstOnly(w, coll) ==
    LET joints == SelectSeq(w, JointQuery)
    IN  IF joints = <<>> THEN coll
        ELSE remove_collision_pair(coll, joints[1].e1, joints[1].e2)

\* for joint in &joints { collisions.remove_collision_pair(joint.entity1, joint.entity2) }
ignore_joint_collisions(w, coll) == RemoveJointPairs(SelectSeq(w, JointQuery), coll)

(***************************************************************************)
(* Schedules.  main() puts update_hash in FixedUpdate; the engine's        *)
(* plugins run the physics step in their default schedule, which comes     *)
(* after FixedUpdate in the fixed main loop.  The reset chain runs in      *)
(* PreUpdate, before the frame's fixed ticks.                              *)
(***************************************************************************)
\* mutant of FixedMainSchedule: the physics step first
FixedMainSchedule_physicsFirst == <<"FixedPostUpdate", "FixedUpdate">>

FixedMainSchedule == <<"FixedUpdate", "FixedPostUpdate">>

AfterStage(stage) ==
    IF FixedMainSchedule[Len(FixedMainSchedule)] = stage THEN "frame"
    ELSE FixedMainSchedule[(CHOOSE i \in 1..Len(FixedMainSchedule) :
                                FixedMainSchedule[i] = stage) + 1]

Init ==
    /\ world = <<>>
    /\ nextId = 1
    /\ commands = <<>>
    /\ step = 0
    /\ step_text = <<>>
    /\ hash_text = <<>>
    /\ collisions = {}
    /\ pc = "Startup"
    /\ order = <<>>
    /\ resets = 0
    /\ physSteps = 0
    /\ hashed = FALSE
    /\ hashInput = <<>>
    /\ lastHash = <<0, 0>>
    /\ hashCount = 0
    /\ narrow = {}
    /\ ran = "none"
    /\ resetAt = -1
    /\ djb2In = <<<<0, 0>>, <<>>>>
    /\ djb2Out = <<0, 0>>

\* Startup: setup_ui creates the StepText span "0" and the empty HashText span
SetupUi ==
    /\ pc = "Startup"
    /\ step_text' = <<"0">>
    /\ hash_text' = <<>>
    /\ pc' = "setup_scene"
    /\ ran' = "setup_ui"
    /\ UNCHANGED djb2Call
    /\ UNCHANGED <<resetAt, world, nextId, commands, step, collisions, order, resets,
                   physSteps, hashed, hashInput, lastHash, hashCount, narrow>>

\* setup_scene, at Startup and as the second system of the reset chain
SetupScene ==
    /\ pc = "setup_scene"
    /\ \E cols \in Perms(COLUMNS) :
         /\ commands' = commands \o setup_scene(cols, nextId)
         /\ order' = cols
    /\ nextId' = nextId + 3 + ROWS * COLUMNS
    /\ pc' = "sync_end"
    /\ ran' = "setup_scene"
    /\ UNCHANGED djb2Call
    /\ UNCHANGED <<resetAt, world, step, step_text, hash_text, collisions, resets,
                   physSteps, hashed, hashInput, lastHash, hashCount, narrow>>

\* the sync point after clear_scene (chain) and the one ending the schedule
ApplyDeferred ==
    /\ pc \in {"sync", "sync_end"}
    /\ world' = ApplyCommands(world, commands)
    /\ commands' = <<>>
    /\ IF pc = "sync"
       THEN pc' = "setup_scene" /\ UNCHANGED <<physSteps, hashCount>>
       ELSE pc' = "frame" /\ physSteps' = 0 /\ hashCount' = 0
    /\ ran' = "apply_deferred"
    /\ UNCHANGED djb2Call
    /\ UNCHANGED <<resetAt, nextId, step, step_text, hash_text, collisions, order, resets,
                   hashed, hashInput, lastHash, narrow>>

\* mutant of ClearScene: the counter is not reset
ClearScene_keepsStep ==
    /\ pc = "frame"
    /\ resets < MaxResets
    /\ commands' = commands \o clear_scene(world)
    /\ resets' = resets + 1
    /\ pc' = "sync"
    /\ ran' = "clear_scene"
    /\ UNCHANGED djb2Call
    /\ resetAt' = step
    /\ UNCHANGED <<world, nextId, step, step_text, hash_text, collisions, order,
                   physSteps, hashed, hashInput, lastHash, hashCount, narrow>>

\* PreUpdate with KeyR just pressed: clear_scene, first system of the chain
ClearScene ==
    /\ pc = "frame"
    /\ resets < MaxResets
    /\ step' = 0
    /\ commands' = commands \o clear_scene(world)
    /\ resets' = resets + 1
    /\ pc' = "sync"
    /\ ran' = "clear_scene"
    /\ UNCHANGED djb2Call
    /\ resetAt' = step
    /\ UNCHANGED <<world, nextId, step_text, hash_text, collisions, order,
                   physSteps, hashed, hashInput, lastHash, hashCount, narrow>>

\* the fixed main loop starts one fixed tick
BeginTick ==
    /\ pc = "frame"
    /\ step < STEP_COUNT + MaxIdleTicks
    /\ pc' = FixedMainSchedule[1]
    /\ ran' = "run_fixed_main_loop"
    /\ UNCHANGED djb2Call
    /\ UNCHANGED <<resetAt, world, nextId, commands, step, step_text, hash_text, collisions,
                   order, resets, physSteps, hashed, hashInput, lastHash, hashCount,
                   narrow>>

\* update_hash
UpdateHash ==
    /\ pc = "FixedUpdate"
    /\ step_text' = to_string(step)
    /\ step' = step + 1
    /\ IF PastHorizon(step')
       THEN /\ hashed' = FALSE
            /\ pc' = AfterStage("FixedUpdate")
            /\ UNCHANGED <<hash_text, hashInput, lastHash, hashCount, djb2Call>>
       ELSE IF expect_fails(Transforms(world))
       THEN /\ hashed' = FALSE
            /\ pc' = "panicked"
            /\ UNCHANGED <<hash_text, hashInput, lastHash, hashCount, djb2Call>>
       ELSE \E transforms_vec \in {sort_by(Transforms(world))} :
            \E before \in {FoldPoses(<<0, 5381>>, transforms_vec, 1,
                                      Len(transforms_vec) - 1)} :
            \E hash \in {IF transforms_vec = <<>> THEN before
                          ELSE djb2_hash(before,
                                         bytes_of(transforms_vec[Len(transforms_vec)]))} :
                /\ hash_text' = HashText(hash, step')
                /\ hashed' = TRUE
                /\ hashInput' = transforms_vec
                /\ lastHash' = hash
                /\ hashCount' = hashCount + 1
                /\ pc' = AfterStage("FixedUpdate")
                /\ IF transforms_vec = <<>>
                   THEN UNCHANGED djb2Call
                   ELSE /\ djb2In' = <<before,
                                       bytes_of(transforms_vec[Len(transforms_vec)])>>
                        /\ djb2Out' = hash
    /\ ran' = "update_hash"
    /\ UNCHANGED <<resetAt, world, nextId, commands, collisions, order, resets, physSteps,
                   narrow>>

\* the engine's contact generation
NarrowPhase ==
    /\ pc = "FixedPostUpdate"
    /\ collisions' = Contacts(world)
    /\ narrow' = collisions'
    /\ pc' = "PostProcessCollisions"
    /\ ran' = "narrow_phase"
    /\ UNCHANGED djb2Call
    /\ UNCHANGED <<resetAt, world, nextId, commands, step, step_text, hash_text, order, resets,
                   physSteps, hashed, hashInput, lastHash, hashCount>>

\* PostProcessCollisions: ignore_joint_collisions
IgnoreJointCollisions ==
    /\ pc = "PostProcessCollisions"
    /\ collisions' = ignore_joint_collisions(world, collisions)
    /\ pc' = "Solver"
    /\ ran' = "ignore_joint_collisions"
    /\ UNCHANGED djb2Call
    /\ UNCHANGED <<resetAt, world, nextId, commands, step, step_text, hash_text, order, resets,
                   physSteps, hashed, hashInput, lastHash, hashCount, narrow>>

\* the engine's solver and pose integration
Solve ==
    /\ pc = "Solver"
    /\ world' = PhysicsStep(world)
    /\ physSteps' = physSteps + 1
    /\ pc' = AfterStage("FixedPostUpdate")
    /\ ran' = "solver"
    /\ UNCHANGED djb2Call
    /\ UNCHANGED <<resetAt, nextId, commands, step, step_text, hash_text, collisions, order,
                   resets, hashed, hashInput, lastHash, hashCount, narrow>>

Next ==
    \/ SetupUi
    \/ SetupScene
    \/ ApplyDeferred
    \/ ClearScene
    \/ BeginTick
    \/ UpdateHash
    \/ NarrowPhase
    \/ IgnoreJointCollisions
    \/ Solve

Spec == Init /\ [][Next]_vars

(***************************************************************************)
(* HashSpec: update_hash as a function of what its query yields.  The      *)
(* query result is any sequence of up to MaxPoses bodies with coordinates  *)
(* in 0..1 (so that bodies can share an x and differ in y), and between    *)
(* two runs of update_hash the engine may yield the same bodies in any     *)
(* other order.                                                            *)
(***************************************************************************)
PermsOf(n) == {p \in [1..n -> 1..n] : \A i, j \in 1..n : p[i] = p[j] => i = j}

Reordered(w, p) == [i \in 1..Len(w) |-> w[p[i]]]

QueryResults ==
    UNION {[1..n -> {Entity(0, {"RigidBody", "Collider"}, "Dynamic", -1, -1, <<x, y, 0>>) :
                        x \in 0..1, y \in 0..1}] : n \in 1..MaxPoses}

HashInit ==
    /\ world \in QueryResults
    /\ nextId = 1
    /\ commands = <<>>
    /\ step = 0
    /\ step_text = <<"0">>
    /\ hash_text = <<>>
    /\ collisions = {}
    /\ pc = "FixedUpdate"
    /\ order = <<>>
    /\ resets = 0
    /\ physSteps = 0
    /\ hashed = FALSE
    /\ hashInput = <<>>
    /\ lastHash = <<0, 0>>
    /\ hashCount = 0
    /\ narrow = {}
    /\ ran = "none"
    /\ resetAt = -1
    /\ djb2In = <<<<0, 0>>, <<>>>>
    /\ djb2Out = <<0, 0>>

\* the engine yields the same bodies in another iteration order
Requery ==
    /\ pc = AfterStage("FixedUpdate")
    /\ step < STEP_COUNT
    /\ \E p \in PermsOf(Len(world)) : world' = Reordered(world, p)
    /\ pc' = "FixedUpdate"
    /\ ran' = "query"
    /\ UNCHANGED djb2Call
    /\ UNCHANGED <<nextId, commands, step, step_text, hash_text, collisions, order,
                   resets, physSteps, hashed, hashInput, lastHash, hashCount, narrow,
                   resetAt>>

HashNext ==
    \/ UpdateHash
    \/ Requery

HashSpec == HashInit /\ [][HashNext]_vars

(***************************************************************************)
(* Djb2Spec: djb2_hash called on any accumulator and any short byte        *)
(* sequence, followed by the ticks of update_hash over a drawn query       *)
(* result.  The accumulators are 0, the seed, values around the carry      *)
(* between the halves and around 2^32 / 33, 2^31 and u32::MAX.             *)
(***************************************************************************)
MaxBytes == 3

Accumulators ==
    {<<0, 0>>, <<0, 5381>>, <<0, 65535>>, <<1985, 61564>>, <<32768, 0>>, <<65535, 65535>>}

Bytes == {0, 1, 255}

ByteSeqs == UNION {[1..n -> Bytes] : n \in 0..MaxBytes}

\* the query results of Djb2Spec: two bodies, in either order of x
Djb2Worlds ==
    [1..2 -> {Entity(0, {"RigidBody", "Collider"}, "Dynamic", -1, -1, <<x, y, 0>>) :
                 x \in 0..1, y \in 0..1}]

Djb2Init ==
    /\ world \in Djb2Worlds
    /\ nextId = 1
    /\ commands = <<>>
    /\ step = 0
    /\ step_text = <<"0">>
    /\ hash_text = <<>>
    /\ collisions = {}
    /\ pc = "call"
    /\ order = <<>>
    /\ resets = 0
    /\ physSteps = 0
    /\ hashed = FALSE
    /\ hashInput = <<>>
    /\ lastHash = <<0, 0>>
    /\ hashCount = 0
    /\ narrow = {}
    /\ ran = "none"
    /\ resetAt = -1
    /\ djb2In = <<<<0, 0>>, <<>>>>
    /\ djb2Out = <<0, 0>>

\* one call djb2_hash(hash, data)
CallDjb2 ==
    /\ pc = "call"
    /\ \E hash \in Accumulators, data \in ByteSeqs :
         /\ djb2In' = <<hash, data>>
         /\ djb2Out' = djb2_hash(hash, data)
    /\ pc' = "FixedUpdate"
    /\ ran' = "djb2_hash"
    /\ UNCHANGED <<world, nextId, commands, step, step_text, hash_text, collisions, order,
                   resets, physSteps, hashed, hashInput, lastHash, hashCount, narrow,
                   resetAt>>

Djb2Next ==
    \/ CallDjb2
    \/ UpdateHash
    \/ Requery

Djb2Spec == Djb2Init /\ [][Djb2Next]_vars

(***************************************************************************)
(* NanSpec: update_hash over poses the engine has driven to NaN.  The      *)
(* query result starts as any sequence of 2..MaxPoses bodies with         *)
(* finite coordinates; between two runs of update_hash the engine's step   *)
(* may leave NaN in the x or the y of a body.                              *)
(***************************************************************************)
NanWorlds ==
    UNION {[1..n -> {Entity(0, {"RigidBody", "Collider"}, "Dynamic", -1, -1, <<x, 0, 0>>) :
                        x \in 0..1}] : n \in 2..MaxPoses}

NanInit ==
    /\ world \in NanWorlds
    /\ nextId = 1
    /\ commands = <<>>
    /\ step = 0
    /\ step_text = <<"0">>
    /\ hash_text = <<>>
    /\ collisions = {}
    /\ pc = "FixedUpdate"
    /\ order = <<>>
    /\ resets = 0
    /\ physSteps = 0
    /\ hashed = FALSE
    /\ hashInput = <<>>
    /\ lastHash = <<0, 0>>
    /\ hashCount = 0
    /\ narrow = {}
    /\ ran = "none"
    /\ resetAt = -1
    /\ djb2In = <<<<0, 0>>, <<>>>>
    /\ djb2Out = <<0, 0>>

\* the engine's step leaves the poses as they are, or one coordinate NaN
StepToNaN ==
    /\ pc = AfterStage("FixedUpdate")
    /\ step < STEP_COUNT
    /\ \/ world' = world
       \/ \E i \in 1..Len(world), c \in 1..2 : world' = [world EXCEPT ![i].pos[c] = NaN]
    /\ physSteps' = physSteps + 1
    /\ pc' = "FixedUpdate"
    /\ ran' = "solver"
    /\ UNCHANGED <<nextId, commands, step, step_text, hash_text, collisions, order,
                   resets, hashed, hashInput, lastHash, hashCount, narrow, resetAt,
                   djb2Call>>

NanNext ==
    \/ UpdateHash
    \/ StepToNaN

NanSpec == NanInit /\ [][NanNext]_vars

(***************************************************************************)
(* FilterSpec: the physics step of a world that holds revolute joints.     *)
(* setup_scene creates none, so the worlds are drawn: MaxFilterBodies      *)
(* bodies and any set of up to MaxJoints joints between two of them, and   *)
(* contact generation may report any set of body pairs.                    *)
(***************************************************************************)
FilterBodies == [i \in 1..MaxFilterBodies |-> SquareEntity(i, 0, i - 1)]

JointEnds == {ab \in (1..MaxFilterBodies) \X (1..MaxFilterBodies) : ab[1] # ab[2]}

JointSets == {js \in SUBSET JointEnds : Cardinality(js) <= MaxJoints}

\* the joints of a set as entities, in the order of their ends
RECURSIVE JointEntities(_, _)
JointEntities(js, id) ==
    IF js = {} THEN <<>>
    ELSE LET ab == CHOOSE m \in js :
                      \A o \in js : m[1] < o[1] \/ (m[1] = o[1] /\ m[2] <= o[2])
         IN  <<JointEntity(id, ab[1], ab[2])>> \o JointEntities(js \ {ab}, id + 1)

BodyPairs == {{a, b} : a, b \in 1..MaxFilterBodies} \ {{a} : a \in 1..MaxFilterBodies}

FilterInit ==
    /\ \E js \in JointSets : world = FilterBodies \o JointEntities(js, MaxFilterBodies + 1)
    /\ nextId = MaxFilterBodies + MaxJoints + 1
    /\ commands = <<>>
    /\ step = 0
    /\ step_text = <<"0">>
    /\ hash_text = <<>>
    /\ collisions = {}
    /\ pc = "FixedPostUpdate"
    /\ order = <<>>
    /\ resets = 0
    /\ physSteps = 0
    /\ hashed = FALSE
    /\ hashInput = <<>>
    /\ lastHash = <<0, 0>>
    /\ hashCount = 0
    /\ narrow = {}
    /\ ran = "none"
    /\ resetAt = -1
    /\ djb2In = <<<<0, 0>>, <<>>>>
    /\ djb2Out = <<0, 0>>

\* the engine's contact generation, reporting any set of pairs
AnyNarrowPhase ==
    /\ pc = "FixedPostUpdate"
    /\ \E pairs \in SUBSET BodyPairs : collisions' = pairs /\ narrow' = pairs
    /\ pc' = "PostProcessCollisions"
    /\ ran' = "narrow_phase"
    /\ UNCHANGED djb2Call
    /\ UNCHANGED <<world, nextId, commands, step, step_text, hash_text, order, resets,
                   physSteps, hashed, hashInput, lastHash, hashCount, resetAt>>

\* the engine's solver and pose integration, and on to the next physics step
SolveAndRepeat ==
    /\ pc = "Solver"
    /\ world' = PhysicsStep(world)
    /\ pc' = "FixedPostUpdate"
    /\ ran' = "solver"
    /\ UNCHANGED djb2Call
    /\ UNCHANGED <<nextId, commands, step, step_text, hash_text, collisions, order,
                   resets, physSteps, hashed, hashInput, lastHash, hashCount, narrow,
                   resetAt>>

FilterNext ==
    \/ AnyNarrowPhase
    \/ IgnoreJointCollisions
    \/ SolveAndRepeat

FilterSpec == FilterInit /\ [][FilterNext]_vars

(***************************************************************************)
(* A fresh start, as a function of the column order: the scene setup_scene *)
(* builds, the world after n physics steps, and the hash update_hash       *)
(* computes on the n-th tick.                                              *)
(***************************************************************************)
FreshScene(cols) == ApplyCommands(<<>>, setup_scene(cols, 1))

RECURSIVE PhysicsRun(_, _)
PhysicsRun(w, n) == IF n = 0 THEN w ELSE PhysicsStep(PhysicsRun(w, n - 1))

\* physics steps that precede update_hash of the n-th tick in the fixed main loop
StepsBeforeHash(n) ==
    IF FixedMainSchedule[1] = "FixedUpdate" THEN n - 1 ELSE n

FreshHash(cols, n) ==
    HashOf(sort_by(Transforms(PhysicsRun(FreshScene(cols), StepsBeforeHash(n)))))

\* update_hash has just run and computed a hash
JustHashed == ran = "update_hash" /\ hashed

\* the poses of a sequence, as a bag
PoseBag(ts) == [p \in Range(ts) |-> Cardinality({i \in 1..Len(ts) : ts[i] = p})]

PosesOf(w, kinds) ==
    LET hit == SelectSeq(w, LAMBDA e : e.rb \in kinds)
    IN  [k \in 1..Len(hit) |-> [pos |-> hit[k].pos, rot |-> hit[k].rot]]

CountOf(w, kind) == Cardinality({i \in 1..Len(w) : w[i].rb = kind})

(***************************************************************************)
(* C1.  The hash of every tick 1..STEP_COUNT is the same for every column  *)
(* order setup_scene may draw: whenever update_hash has computed a hash,   *)
(* it is the hash a fresh start with any other column order computes on    *)
(* the same tick over the same number of physics steps.                    *)
(***************************************************************************)
C1_HashIndependentOfShuffle ==
    JustHashed =>
        \A cols \in Perms(COLUMNS) :
            lastHash = HashOf(sort_by(Transforms(PhysicsRun(FreshScene(cols), physSteps))))

(***************************************************************************)
(* C2.  For every order in which the query may yield the same bodies, the  *)
(* sort by x followed by the fold gives the hash update_hash computed.     *)
(***************************************************************************)
C2_HashSameUnderQueryOrder ==
    JustHashed =>
        \A p \in PermsOf(Len(world)) :
            HashOf(sort_by(Transforms(Reordered(world, p)))) = lastHash

(***************************************************************************)
(* C5.  Right after ignore_joint_collisions has run, the collision set     *)
(* holds no pair formed by the two bodies of a revolute joint, whatever    *)
(* pairs contact generation reported.                                      *)
(***************************************************************************)
C5_JointPairsSuppressed ==
    ran = "ignore_joint_collisions" =>
        \A i \in 1..Len(world) :
            JointQuery(world[i]) => {world[i].e1, world[i].e2} \notin collisions

\* two joints whose pairs were both reported, and a third pair that stays
C5_Witness ==
    /\ ran = "ignore_joint_collisions"
    /\ \E i, j \in 1..Len(world) :
         /\ i # j
         /\ JointQuery(world[i]) /\ JointQuery(world[j])
         /\ {world[i].e1, world[i].e2} # {world[j].e1, world[j].e2}
         /\ {world[i].e1, world[i].e2} \in narrow
         /\ {world[j].e1, world[j].e2} \in narrow
    /\ collisions # {}

(***************************************************************************)
(* C3.  Freeze after the horizon: once the counter has reached STEP_COUNT, *)
(* no step changes the displayed hash text.                                *)
(***************************************************************************)
C3_FreezeAfterHorizon == [][step >= STEP_COUNT => hash_text' = hash_text]_vars

\* two ticks have run past the horizon, over poses that differ from the hashed ones
C3_Witness ==
    /\ ran = "update_hash"
    /\ step = STEP_COUNT + 2
    /\ ~hashed
    /\ hash_text = HashText(lastHash, STEP_COUNT)
    /\ sort_by(Transforms(world)) # hashInput

(***************************************************************************)
(* C4.  Reset idempotence: after a reset, the hash of the n-th tick is the *)
(* hash of the n-th tick of a fresh start.                                 *)
(***************************************************************************)
C4_ResetReproducesFreshStart ==
    (JustHashed /\ resets > 0) =>
        \A cols \in Perms(COLUMNS) : lastHash = FreshHash(cols, step)

(***************************************************************************)
(* C6.  As claimed: the poses folded into a hash are exactly those of the  *)
(* ROWS * COLUMNS dynamic bodies.                                          *)
(***************************************************************************)
C6_OnlyDynamicHashed ==
    JustHashed =>
        /\ Len(hashInput) = ROWS * COLUMNS
        /\ PoseBag(hashInput) = PoseBag(PosesOf(world, {"Dynamic"}))

(***************************************************************************)
(* C6, amended.  The poses folded into a hash are exactly those of the     *)
(* entities with a RigidBody: the ROWS * COLUMNS dynamic bodies and the    *)
(* static ground.                                                          *)
(***************************************************************************)
C6_RigidBodiesHashed ==
    JustHashed =>
        /\ Len(hashInput) = ROWS * COLUMNS + 1
        /\ PoseBag(hashInput) = PoseBag(PosesOf(world, {"Dynamic", "Static"}))
        /\ CountOf(world, "Dynamic") = ROWS * COLUMNS
        /\ CountOf(world, "Static") = 1

C6_Witness ==
    /\ JustHashed
    /\ \E i \in 1..Len(hashInput) : hashInput[i].pos = <<0, -20, 0>>
    /\ \E i \in 1..Len(hashInput) : hashInput[i].pos = SquareTranslation(0, 0)

InTick == pc \in {"frame", "FixedUpdate", "FixedPostUpdate", "PostProcessCollisions", "Solver"}

C8_BodyCounts ==
    InTick => /\ CountOf(world, "Static") = 1
              /\ CountOf(world, "Dynamic") = ROWS * COLUMNS

C8_Witness == JustHashed /\ resets > 0 /\ CountOf(world, "Dynamic") = ROWS * COLUMNS

(***************************************************************************)
(* C9.  As claimed: between a scene build and the freeze STEP_COUNT + 1    *)
(* hashes are computed, one for each counter value 0..STEP_COUNT.          *)
(***************************************************************************)
C9_HashesUpToFreeze ==
    (ran = "update_hash" /\ ~hashed) => hashCount = STEP_COUNT + 1

(***************************************************************************)
(* C9, amended.  A hash is computed once for each counter value            *)
(* 1..STEP_COUNT reached by a tick's increment, STEP_COUNT hashes in all   *)
(* between a scene build and the freeze, and whenever a hash is computed   *)
(* the counter lies in 1..STEP_COUNT.                                      *)
(***************************************************************************)
C9_HashesPerStep ==
    ran = "update_hash" =>
        /\ hashed <=> step \in 1..STEP_COUNT
        /\ hashCount = IF step <= STEP_COUNT THEN step ELSE STEP_COUNT

C9_Witness == ran = "update_hash" /\ ~hashed /\ hashCount = STEP_COUNT /\ resets > 0

(***************************************************************************)
(* C10.  The counter starts at 0; update_hash increases it by exactly 1    *)
(* and clear_scene sets it to 0, and nothing else changes it; past         *)
(* STEP_COUNT no tick computes a hash; the first tick after a scene build  *)
(* computes one.                                                           *)
(***************************************************************************)
C10_StepTransitions ==
    /\ step = 0
    /\ [][/\ ran' = "update_hash" => step' = step + 1
          /\ ran' = "clear_scene" => step' = 0
          /\ ran' \notin {"update_hash", "clear_scene"} => step' = step
          /\ (ran' = "update_hash" /\ step >= STEP_COUNT) => ~hashed'
          /\ (ran' = "update_hash" /\ hashCount = 0) => hashed']_vars

\* a reset out of the idle state, and the next tick has computed a hash
C10_Witness ==
    /\ JustHashed
    /\ resetAt > STEP_COUNT
    /\ step = 1
    /\ step_text = <<"0">>

\* a scene build has just completed: the commands of setup_scene are applied
SceneBuilt == ran = "apply_deferred" /\ pc = "frame"

(***************************************************************************)
(* C11.  After every scene build (startup or reset) the world holds at     *)
(* least one revolute joint that connects two distinct bodies of the       *)
(* scene, a pair for ignore_joint_collisions to suppress.                  *)
(***************************************************************************)
C11_SceneEngagesJoints ==
    SceneBuilt =>
        \E i, a, b \in 1..Len(world) :
            /\ JointQuery(world[i])
            /\ HashQuery(world[a]) /\ HashQuery(world[b])
            /\ a # b
            /\ {world[i].e1, world[i].e2} = {world[a].id, world[b].id}

(***************************************************************************)
(* The reference of C12: h' = (h * 33 + byte) mod 2^32 on the base-256     *)
(* digits of h, least significant first, by multiplication with carry;     *)
(* the carry out of the fourth digit is dropped.                           *)
(***************************************************************************)
Limbs(h) == <<h[2] % 256, h[2] \div 256, h[1] % 256, h[1] \div 256>>

Times33Plus(l, byte) ==
    LET s1 == l[1] * 33 + byte
        s2 == l[2] * 33 + (s1 \div 256)
        s3 == l[3] * 33 + (s2 \div 256)
        s4 == l[4] * 33 + (s3 \div 256)
    IN  <<s1 % 256, s2 % 256, s3 % 256, s4 % 256>>

RECURSIVE FoldTimes33(_, _, _, _)
FoldTimes33(l, data, lo, hi) ==
    IF lo > hi THEN l
    ELSE IF lo = hi THEN Times33Plus(l, data[lo])
    ELSE LET mid == (lo + hi) \div 2
         IN  CHOOSE r \in {FoldTimes33(m, data, mid + 1, hi) :
                            m \in {FoldTimes33(l, data, lo, mid)}} : TRUE

RECURSIVE AllBytes(_)
AllBytes(ts) == IF ts = <<>> THEN <<>> ELSE bytes_of(Head(ts)) \o AllBytes(Tail(ts))

(***************************************************************************)
(* C12.  Every call of djb2_hash returns the left fold of                  *)
(* h' = (h * 33 + byte) mod 2^32 over its data, started from its           *)
(* accumulator; and whenever update_hash has computed a hash, the poses it *)
(* folded are those of the query in ascending order of x, and the hash is  *)
(* that fold, started from 5381, over the bodies' byte records one after   *)
(* the other.                                                              *)
(***************************************************************************)
C12_Djb2FoldFromSeed ==
    /\ ran \in {"djb2_hash", "update_hash"} =>
          Limbs(djb2Out) = FoldTimes33(Limbs(djb2In[1]), djb2In[2], 1, Len(djb2In[2]))
    /\ JustHashed =>
          /\ PoseBag(hashInput) = PoseBag(Transforms(world))
          /\ \A i \in 1..(Len(hashInput) - 1) : hashInput[i].pos[1] <= hashInput[i + 1].pos[1]
          /\ LET data == AllBytes(hashInput)
             IN  Limbs(lastHash) = FoldTimes33(<<5381 % 256, 5381 \div 256, 0, 0>>,
                                               data, 1, Len(data))

\* a hash over several bodies the query did not yield in order of x, whose last
\* call of djb2_hash started from an accumulator that wraps on its first byte
C12_Witness ==
    /\ JustHashed
    /\ Len(hashInput) >= 2
    /\ Transforms(world) # hashInput
    /\ djb2In[1][1] >= 2048
    /\ step >= 2

\* a pose with a NaN among its seven scalars
HasNaN(pose) == NaN \in Range(pose.pos) \cup Range(pose.rot)

(***************************************************************************)
(* C13.  As claimed: on a tick within the hashing window, if the pose of   *)
(* any hashed body contains a NaN, update_hash ends in the fatal failure   *)
(* and has written no hash.                                                *)
(***************************************************************************)
C13_NaNPoseIsFatal ==
    (/\ ran = "update_hash"
     /\ step <= STEP_COUNT
     /\ \E i \in 1..Len(world) : HashQuery(world[i]) /\ HasNaN(world[i]))
        => (pc = "panicked" /\ ~hashed)

(***************************************************************************)
(* C13, amended.  On a tick within the hashing window update_hash ends in  *)
(* the fatal failure exactly when it hashes two or more bodies and the x   *)
(* of one of them is NaN; it then leaves the displayed hash as it was.  In *)
(* every other case, a NaN in another component of a pose included, it     *)
(* computes and displays a hash.                                           *)
(***************************************************************************)
C13_NaNInSortKeyIsFatal ==
    [][(ran' = "update_hash" /\ step' <= STEP_COUNT) =>
          LET ts == Transforms(world)
              fatal == Len(ts) >= 2 /\ \E i \in 1..Len(ts) : ts[i].pos[1] = NaN
          IN  /\ (pc' = "panicked") <=> fatal
              /\ fatal => (hash_text' = hash_text /\ ~hashed')
              /\ ~fatal => (hashed' /\ hash_text' # <<>>)]_vars

\* the failure on a tick after one that displayed a hash; the NaN is not in the
\* first body the query yields
C13_Witness ==
    /\ pc = "panicked"
    /\ ran = "update_hash"
    /\ step >= 2
    /\ hash_text # <<>>
    /\ Len(world) >= 2
    /\ world[1].pos[1] # NaN

\* identities given out by the last run of setup_scene
LastBuildIds == (nextId - (3 + ROWS * COLUMNS))..(nextId - 1)

(***************************************************************************)
(* C14.  Whenever update_hash has run, it has seen a whole scene: no       *)
(* command is pending, the hashed bodies are the ground and the            *)
(* ROWS * COLUMNS bodies of the last scene build and no other, every one   *)
(* of them has its collider, and the counter counts the ticks of that      *)
(* scene (one more than the physics steps run on it).                      *)
(***************************************************************************)
C14_ResetAtomicForHasher ==
    ran = "update_hash" =>
        LET seen == SelectSeq(world, HashQuery)
        IN  /\ commands = <<>>
            /\ Len(seen) = ROWS * COLUMNS + 1
            /\ \A i \in 1..Len(seen) : /\ seen[i].id \in LastBuildIds
                                       /\ "Collider" \in seen[i].comps
            /\ step = physSteps + 1

\* the first tick after a reset that found a scene with ticks behind it
C14_Witness ==
    /\ ran = "update_hash"
    /\ resets > 0
    /\ resetAt >= 1
    /\ physSteps = 0
    /\ hashed

(***************************************************************************)
(* C15.  After every scene build, whatever column order was drawn: the     *)
(* body of column c and row r is at x = x_root + c * delta_x + offset * r, *)
(* y = half_size + 2 * half_size * r, z = 0; there is one body for every   *)
(* column and row, so the set of positions is the same for every order;    *)
(* the columns were created in the drawn order and, within a column, the   *)
(* rows from 0 upwards.                                                    *)
(***************************************************************************)
C15_GeometryFromIndices ==
    SceneBuilt =>
        LET sq == SelectSeq(world, LAMBDA e : e.rb = "Dynamic")
        IN  /\ Len(sq) = ROWS * COLUMNS
            /\ \A k \in 1..Len(sq) :
                 /\ sq[k].pos = <<x_root + sq[k].col * delta_x + offset * sq[k].row,
                                  half_size + 2 * half_size * sq[k].row, 0>>
                 /\ sq[k].col = order[((k - 1) \div ROWS) + 1]
                 /\ sq[k].row = (k - 1) % ROWS
            /\ {sq[k].pos : k \in 1..Len(sq)}
                 = {<<x_root + c * delta_x + offset * r, half_size + 2 * half_size * r, 0>> :
                       c \in 0..(COLUMNS - 1), r \in 0..(ROWS - 1)}

\* a build after a reset that drew an order in which column 0 is not the first
C15_Witness ==
    /\ SceneBuilt
    /\ resets > 0
    /\ order[1] # 0

\* entities of w that carry the component
CountWith(w, comp) == Cardinality({i \in 1..Len(w) : comp \in w[i].comps})

(***************************************************************************)
(* C16.  At every tick, after startup and after any number of resets, the  *)
(* world holds exactly one camera and exactly one directional light.       *)
(***************************************************************************)
C16_OneCameraOneLight ==
    InTick => /\ CountWith(world, "Camera") = 1
              /\ CountWith(world, "DirectionalLight") = 1

(***************************************************************************)
(* C17.  The hash of a tick is a function of the poses of the hashed       *)
(* bodies at that tick alone: whenever update_hash has computed a hash,    *)
(* every tick of a run from a fresh start, under any column order, that    *)
(* presents the same poses yields the same hash.                           *)
(***************************************************************************)
C17_SamePosesSameHash ==
    JustHashed =>
        \A cols \in Perms(COLUMNS), n \in 0..(STEP_COUNT - 1) :
            LET ts == sort_by(Transforms(PhysicsRun(FreshScene(cols), n)))
            IN  PoseBag(ts) = PoseBag(hashInput) => HashOf(ts) = lastHash

\* the annotation of the horizon, " (step 500)" for STEP_COUNT = 500
StepAnnotation == <<" ", "(", "s", "t", "e", "p", " ">> \o to_string(STEP_COUNT) \o <<")">>

\* the text ends with the annotation
Annotated(t) ==
    /\ Len(t) > Len(StepAnnotation)
    /\ SubSeq(t, Len(t) - Len(StepAnnotation) + 1, Len(t)) = StepAnnotation

(***************************************************************************)
(* C18.  A hash just written is annotated exactly when it is the hash of   *)
(* the tick on which the counter reached STEP_COUNT, the STEP_COUNT-th     *)
(* tick since the last scene build; the display shows an annotated text    *)
(* from that tick on, and after a reset only until the next tick, which    *)
(* writes a text without annotation; an annotated text is the hash in hex  *)
(* followed by " (step STEP_COUNT)", and any other text has no annotation  *)
(* at all.                                                                 *)
(***************************************************************************)
C18_AnnotationAtHorizon ==
    /\ JustHashed =>
          (Annotated(hash_text) <=>
              (step = STEP_COUNT /\ hashCount = STEP_COUNT /\ physSteps = STEP_COUNT - 1))
    /\ step >= STEP_COUNT => Annotated(hash_text)
    /\ Annotated(hash_text) =>
          /\ step >= STEP_COUNT \/ (step = 0 /\ resets > 0)
          /\ hash_text = <<"0", "x">> \o LowerHex(lastHash) \o StepAnnotation
    /\ ~Annotated(hash_text) => "(" \notin Range(hash_text)

\* a reset found the annotated hash on display, and the next tick has replaced it
C18_Witness ==
    /\ JustHashed
    /\ resetAt >= STEP_COUNT
    /\ step = 1
    /\ ~Annotated(hash_text)
    /\ hash_text # <<>>

====
